---- MODULE Spec2Model ----
(***************************************************************************)
(* ColumnDefinitionBuilder of kysely (src/schema/column-definition-        *)
(* builder.ts): an immutable builder around one ColumnDefinitionNode.      *)
(* Every method either throws or returns a NEW builder that wraps a clone  *)
(* of the receiver's node with one property replaced.                      *)
(*                                                                         *)
(* Objects are modelled as records whose DOMAIN is the set of own          *)
(* properties: an optional property that was never set is absent from the  *)
(* DOMAIN (JavaScript undefined).  Strings handed to references() are      *)
(* sequences of one-character strings so that the split on '.' is          *)
(* computed, not assumed.                                                  *)
(***************************************************************************)
EXTENDS Integers, Sequences, FiniteSets, TLC

VARIABLES
  builders,   \* heap of ColumnDefinitionBuilder objects: builders[i] is #node of object i
  origin,     \* history: origin[i] is the call that returned builder i
  last,       \* the most recent call: receiver, method, argument, outcome
  ncalls,     \* number of method calls made so far
  hnode,      \* the query node of the current builder of the having chain
  hlog        \* history: the calls made on the having chain, in order

vars == <<builders, origin, last, ncalls, hnode, hlog>>

\* Bound of the model: number of method calls in one behaviour.
MaxCalls == 3

\* Bound of the model: number of calls on the having chain in one behaviour.
MaxHavingCalls == 4

----------------------------------------------------------------------------
(* Inputs *)

\* 'a.b'
Ref_a_b == <<"a", ".", "b">>
\* 'a.b.c'
Ref_a_b_c == <<"a", ".", "b", ".", "c">>
\* 'a'
Ref_a == <<"a">>
\* ''
Ref_empty == <<>>
\* 'a.*'
Ref_a_star == <<"a", ".", "*">>
\* 'a.b.c.d'
Ref_a_b_c_d == <<"a", ".", "b", ".", "c", ".", "d">>
\* 'person.id'
Ref_person_id == <<"p", "e", "r", "s", "o", "n", ".", "i", "d">>

\* Arguments given to references(ref: string).
RefStrings ==
  {Ref_a_b, Ref_a_b_c, Ref_a, Ref_empty, Ref_a_star, Ref_a_b_c_d, Ref_person_id}

\* Arguments given to onDelete / onUpdate (values of OnModifyForeignAction).
Actions == {"cascade", "restrict"}

\* Raw builders (AnyRawBuilder): objects exposing toOperationNode().
RawBuilders == {[rawSql |-> "e1"], [rawSql |-> "e2"]}

\* Arguments given to defaultTo: a literal value or a raw builder.
DefaultValues == {[literal |-> 4], [rawSql |-> "e1"]}

----------------------------------------------------------------------------
(* Operation nodes *)

\* JavaScript: obj.prop !== undefined
Has(obj, prop) == prop \in DOMAIN obj

\* { ...node, ...props }
SpreadWith(node, props) ==
  [f \in DOMAIN node \cup DOMAIN props |->
     IF f \in DOMAIN props THEN props[f] ELSE node[f]]

\* ColumnDefinitionNode.create(column, dataType): no optional property set.
ColumnDefinitionNode_create(column, dataType) ==
  [kind |-> "ColumnDefinitionNode", column |-> column, dataType |-> dataType]

\* ColumnDefinitionNode.cloneWith(node, props)
ColumnDefinitionNode_cloneWith(node, props) == SpreadWith(node, props)

\* expression.toOperationNode() of a raw builder
RawBuilder_toOperationNode(raw) == [kind |-> "RawNode", sql |-> raw.rawSql]

\* parseDefaultValueExpression(value)
parseDefaultValueExpression(value) ==
  IF Has(value, "rawSql")
    THEN RawBuilder_toOperationNode(value)
    ELSE [kind |-> "ValueNode", value |-> value.literal, immediate |-> TRUE]

\* DefaultValueNode.create(defaultValue)
DefaultValueNode_create(defaultValue) ==
  [kind |-> "DefaultValueNode", defaultValue |-> defaultValue]

\* CheckConstraintNode.create(expression)
CheckConstraintNode_create(expression) ==
  [kind |-> "CheckConstraintNode", expression |-> expression]

\* GeneratedNode.create(params)
GeneratedNode_create(params) == SpreadWith([kind |-> "GeneratedNode"], params)

\* GeneratedNode.createWithExpression(expression)
GeneratedNode_createWithExpression(expression) ==
  [kind |-> "GeneratedNode", expression |-> expression]

\* GeneratedNode.cloneWith(node, params)
GeneratedNode_cloneWith(node, params) == SpreadWith(node, params)

\* ReferencesNode.create(table, columns)
ReferencesNode_create(table, columns) ==
  [kind |-> "ReferencesNode", table |-> table, columns |-> columns]

\* ReferencesNode.cloneWithOnDelete(references, onDelete)
ReferencesNode_cloneWithOnDelete(references, onDelete) ==
  SpreadWith(references, [onDelete |-> onDelete])

\* ReferencesNode.cloneWithOnUpdate(references, onUpdate)
ReferencesNode_cloneWithOnUpdate(references, onUpdate) ==
  SpreadWith(references, [onUpdate |-> onUpdate])

----------------------------------------------------------------------------
(* Reference parsing *)

RECURSIVE SplitFrom(_, _, _)
\* ref.split('.'): cur is the segment being read, acc the finished segments.
SplitFrom(s, cur, acc) ==
  IF s = <<>> THEN Append(acc, cur)
  ELSE IF Head(s) = "." THEN SplitFrom(Tail(s), <<>>, Append(acc, cur))
  ELSE SplitFrom(Tail(s), Append(cur, Head(s)), acc)

Split(s) == SplitFrom(s, <<>>, <<>>)

\* The column part of a reference: the select-all marker for '*'.
ParseColumn(c) ==
  IF c = <<"*">> THEN [kind |-> "SelectAllNode"]
  ELSE [kind |-> "ColumnNode", column |-> c]

\* parseStringReference(ref): a ReferenceNode for table.column and
\* schema.table.column, a plain ColumnNode for a string without '.', and a
\* throw for any other number of segments.
parseStringReference(ref) ==
  LET parts == Split(ref) IN
  CASE Len(parts) = 1 -> [kind |-> "ColumnNode", column |-> ref]
    [] Len(parts) = 2 ->
         [kind |-> "ReferenceNode",
          table |-> [kind |-> "TableNode", table |-> parts[1]],
          column |-> ParseColumn(parts[2])]
    [] Len(parts) = 3 ->
         [kind |-> "ReferenceNode",
          table |-> [kind |-> "TableNode", schema |-> parts[1], table |-> parts[2]],
          column |-> ParseColumn(parts[3])]
    [] OTHER -> [kind |-> "Throw", message |-> "invalid column reference"]

\* ReferenceNode.is(node)
ReferenceNode_is(node) == node.kind = "ReferenceNode"

\* SelectAllNode.is(node)
SelectAllNode_is(node) == node.kind = "SelectAllNode"

----------------------------------------------------------------------------
(* Methods of ColumnDefinitionBuilder, as functions of the receiver's #node.
   A result is either a returned node (wrapped in a new builder by the
   caller's `new ColumnDefinitionBuilder(...)`) or a thrown Error. *)

Returns(node) == [ok |-> TRUE, node |-> node]
Throws(message) == [ok |-> FALSE, message |-> message]

autoIncrement(node) ==
  Returns(ColumnDefinitionNode_cloneWith(node, [autoIncrement |-> TRUE]))

\* Mutant of primaryKey: the column is also made not null.
primaryKey_AlsoNotNull(node) ==
  Returns(ColumnDefinitionNode_cloneWith(node, [primaryKey |-> TRUE, notNull |-> TRUE]))

primaryKey(node) ==
  Returns(ColumnDefinitionNode_cloneWith(node, [primaryKey |-> TRUE]))

\* Mutant of references: merges into the receiver's references sub-node.
references_Merges(node, ref) ==
  LET refs == parseStringReference(ref) IN
  IF refs.kind = "Throw" THEN Throws(refs.message)
  ELSE IF ~ReferenceNode_is(refs) \/ SelectAllNode_is(refs.column)
    THEN Throws("invalid call references")
  ELSE Returns(ColumnDefinitionNode_cloneWith(node,
         [references |->
            SpreadWith(IF Has(node, "references") THEN node.references ELSE <<>>,
                       ReferencesNode_create(refs.table, <<refs.column>>))]))

\* Mutant of references: the column is left out of the column list.
references_OmitsColumn(node, ref) ==
  LET refs == parseStringReference(ref) IN
  IF refs.kind = "Throw" THEN Throws(refs.message)
  ELSE IF ~ReferenceNode_is(refs) \/ SelectAllNode_is(refs.column)
    THEN Throws("invalid call references")
  ELSE Returns(ColumnDefinitionNode_cloneWith(node,
         [references |-> ReferencesNode_create(refs.table, <<>>)]))

\* Mutant of references: the select-all check is missing.
references_NoWildcardCheck(node, ref) ==
  LET refs == parseStringReference(ref) IN
  IF refs.kind = "Throw" THEN Throws(refs.message)
  ELSE IF ~ReferenceNode_is(refs)
    THEN Throws("invalid call references")
  ELSE Returns(ColumnDefinitionNode_cloneWith(node,
         [references |-> ReferencesNode_create(refs.table, <<refs.column>>)]))

references(node, ref) ==
  LET refs == parseStringReference(ref) IN
  IF refs.kind = "Throw" THEN Throws(refs.message)
  ELSE IF ~ReferenceNode_is(refs) \/ SelectAllNode_is(refs.column)
    THEN Throws("invalid call references")
  ELSE Returns(ColumnDefinitionNode_cloneWith(node,
         [references |-> ReferencesNode_create(refs.table, <<refs.column>>)]))

\* Mutant of onDelete: the precondition check is missing.
onDelete_Unguarded(node, action) ==
  Returns(ColumnDefinitionNode_cloneWith(node,
    [references |->
       ReferencesNode_cloneWithOnDelete(
         IF Has(node, "references") THEN node.references ELSE <<>>, action)]))

onDelete(node, action) ==
  IF ~Has(node, "references")
    THEN Throws("on delete constraint can only be added for foreign keys")
    ELSE Returns(ColumnDefinitionNode_cloneWith(node,
           [references |-> ReferencesNode_cloneWithOnDelete(node.references, action)]))

\* Mutant of onUpdate: builds the references sub-node anew, losing onDelete.
onUpdate_DropsOnDelete(node, action) ==
  IF ~Has(node, "references")
    THEN Throws("on update constraint can only be added for foreign keys")
    ELSE Returns(ColumnDefinitionNode_cloneWith(node,
           [references |->
              ReferencesNode_cloneWithOnUpdate(
                ReferencesNode_create(node.references.table, node.references.columns),
                action)]))

onUpdate(node, action) ==
  IF ~Has(node, "references")
    THEN Throws("on update constraint can only be added for foreign keys")
    ELSE Returns(ColumnDefinitionNode_cloneWith(node,
           [references |-> ReferencesNode_cloneWithOnUpdate(node.references, action)]))

\* Mutant of unique: the flag is toggled instead of set.
unique_Toggles(node) ==
  Returns(ColumnDefinitionNode_cloneWith(node,
    [unique |-> IF Has(node, "unique") THEN ~node.unique ELSE TRUE]))

unique(node) ==
  Returns(ColumnDefinitionNode_cloneWith(node, [unique |-> TRUE]))

notNull(node) ==
  Returns(ColumnDefinitionNode_cloneWith(node, [notNull |-> TRUE]))

unsigned(node) ==
  Returns(ColumnDefinitionNode_cloneWith(node, [unsigned |-> TRUE]))

\* Mutant of defaultTo: a default that is already set is kept.
defaultTo_KeepsFirst(node, value) ==
  Returns(ColumnDefinitionNode_cloneWith(node,
    [defaultTo |-> IF Has(node, "defaultTo") THEN node.defaultTo
                   ELSE DefaultValueNode_create(parseDefaultValueExpression(value))]))

defaultTo(node, value) ==
  Returns(ColumnDefinitionNode_cloneWith(node,
    [defaultTo |-> DefaultValueNode_create(parseDefaultValueExpression(value))]))

\* Mutant of check: the clone is taken of a fresh node, not of the receiver's.
check_FromFresh(node, expression) ==
  Returns(ColumnDefinitionNode_cloneWith(
    ColumnDefinitionNode_create(node.column, node.dataType),
    [check |-> CheckConstraintNode_create(RawBuilder_toOperationNode(expression))]))

check(node, expression) ==
  Returns(ColumnDefinitionNode_cloneWith(node,
    [check |-> CheckConstraintNode_create(RawBuilder_toOperationNode(expression))]))

\* Mutant of generatedAlwaysAs: a default value is removed from the node.
generatedAlwaysAs_ClearsDefault(node, expression) ==
  Returns(ColumnDefinitionNode_cloneWith(
    [f \in DOMAIN node \ {"defaultTo"} |-> node[f]],
    [generated |-> GeneratedNode_createWithExpression(
                     RawBuilder_toOperationNode(expression))]))

generatedAlwaysAs(node, expression) ==
  Returns(ColumnDefinitionNode_cloneWith(node,
    [generated |-> GeneratedNode_createWithExpression(
                     RawBuilder_toOperationNode(expression))]))

\* Mutant of generatedAlwaysAsIdentity: clones the receiver's generated node.
generatedAlwaysAsIdentity_Merges(node) ==
  Returns(ColumnDefinitionNode_cloneWith(node,
    [generated |->
       IF Has(node, "generated")
         THEN GeneratedNode_cloneWith(node.generated, [identity |-> TRUE, always |-> TRUE])
         ELSE GeneratedNode_create([identity |-> TRUE, always |-> TRUE])]))

generatedAlwaysAsIdentity(node) ==
  Returns(ColumnDefinitionNode_cloneWith(node,
    [generated |-> GeneratedNode_create([identity |-> TRUE, always |-> TRUE])]))

generatedByDefaultAsIdentity(node) ==
  Returns(ColumnDefinitionNode_cloneWith(node,
    [generated |-> GeneratedNode_create([identity |-> TRUE, byDefault |-> TRUE])]))

\* Mutant of stored: builds the generated node anew, losing its properties.
stored_Recreates(node) ==
  IF ~Has(node, "generated")
    THEN Throws("stored() can only be called after generatedAlwaysAs")
    ELSE Returns(ColumnDefinitionNode_cloneWith(node,
           [generated |-> GeneratedNode_create([stored |-> TRUE])]))

stored(node) ==
  IF ~Has(node, "generated")
    THEN Throws("stored() can only be called after generatedAlwaysAs")
    ELSE Returns(ColumnDefinitionNode_cloneWith(node,
           [generated |-> GeneratedNode_cloneWith(node.generated, [stored |-> TRUE])]))

\* preventAwait(clazz, message): the `then` it installs on the class throws
\* an Error with the message as soon as the object is used as a thenable.
preventAwait(message) == Throws(message)

\* Mutant of then: the guard is missing and the builder resolves as a value.
then_NotPrevented(node) == Returns(node)

\* `then` of a builder, as installed by preventAwait(ColumnDefinitionBuilder, ...).
then(node) == preventAwait("don't await ColumnDefinitionBuilder instances directly.")

\* toOperationNode(): the wrapped node, not a copy.
toOperationNode(heap, b) == heap[b]

----------------------------------------------------------------------------
(* The heap of builders *)

\* Mutant of NewBuilder: #node is one static field shared by all builders.
NewBuilder_Static(heap, node) == [i \in 1..(Len(heap) + 1) |-> node]

\* Mutant of NewBuilder: the new node is also written into the oldest builder.
NewBuilder_OverwritesRoot(heap, node) == Append([heap EXCEPT ![1] = node], node)

\* new ColumnDefinitionBuilder(node): a fresh object whose #node is node.
NewBuilder(heap, node) == Append(heap, node)

\* The builder objects that exist.
Refs == 1..Len(builders)

\* Mutant of Call: the builder is constructed before the method throws.
Call_PartialOnThrow(b, method, arg, r) ==
  /\ ncalls < MaxCalls
  /\ ncalls' = ncalls + 1
  /\ builders' = Append(builders, IF r.ok THEN r.node ELSE builders[b])
  /\ origin' = Append(origin, [parent |-> b, method |-> method, arg |-> arg])
  /\ last' = [method |-> method, recv |-> b, arg |-> arg,
              outcome |-> IF r.ok THEN "returned" ELSE "threw",
              message |-> IF r.ok THEN "" ELSE r.message,
              result |-> IF r.ok THEN Len(builders) + 1 ELSE 0,
              after |-> last.outcome]
  /\ UNCHANGED <<hnode, hlog>>

\* One call b.method(arg) with outcome r: a throw allocates nothing.
Call(b, method, arg, r) ==
  /\ ncalls < MaxCalls
  /\ ncalls' = ncalls + 1
  /\ builders' = IF r.ok THEN NewBuilder(builders, r.node) ELSE builders
  /\ origin' = IF r.ok
                 THEN Append(origin, [parent |-> b, method |-> method, arg |-> arg])
                 ELSE origin
  /\ last' = [method |-> method, recv |-> b, arg |-> arg,
              outcome |-> IF r.ok THEN "returned" ELSE "threw",
              message |-> IF r.ok THEN "" ELSE r.message,
              result |-> IF r.ok THEN Len(builders) + 1 ELSE 0,
              after |-> last.outcome]
  /\ UNCHANGED <<hnode, hlog>>

Init ==
  /\ builders = <<ColumnDefinitionNode_create(<<"c">>, "integer")>>
  /\ origin = <<[parent |-> 0, method |-> "constructor", arg |-> <<>>]>>
  /\ last = [method |-> "constructor", recv |-> 0, arg |-> <<>>,
             outcome |-> "returned", message |-> "", result |-> 1,
             after |-> "returned"]
  /\ ncalls = 0
  /\ hnode = [kind |-> "SelectQueryNode"]
  /\ hlog = <<>>

AutoIncrement(b) == Call(b, "autoIncrement", <<>>, autoIncrement(builders[b]))
PrimaryKey(b) == Call(b, "primaryKey", <<>>, primaryKey(builders[b]))
References(b, ref) == Call(b, "references", <<ref>>, references(builders[b], ref))
OnDelete(b, a) == Call(b, "onDelete", <<a>>, onDelete(builders[b], a))
OnUpdate(b, a) == Call(b, "onUpdate", <<a>>, onUpdate(builders[b], a))
Unique(b) == Call(b, "unique", <<>>, unique(builders[b]))
NotNull(b) == Call(b, "notNull", <<>>, notNull(builders[b]))
Unsigned(b) == Call(b, "unsigned", <<>>, unsigned(builders[b]))
DefaultTo(b, v) == Call(b, "defaultTo", <<v>>, defaultTo(builders[b], v))
Check(b, e) == Call(b, "check", <<e>>, check(builders[b], e))
GeneratedAlwaysAs(b, e) ==
  Call(b, "generatedAlwaysAs", <<e>>, generatedAlwaysAs(builders[b], e))
GeneratedAlwaysAsIdentity(b) ==
  Call(b, "generatedAlwaysAsIdentity", <<>>, generatedAlwaysAsIdentity(builders[b]))
GeneratedByDefaultAsIdentity(b) ==
  Call(b, "generatedByDefaultAsIdentity", <<>>, generatedByDefaultAsIdentity(builders[b]))
Stored(b) == Call(b, "stored", <<>>, stored(builders[b]))
Then(b) == Call(b, "then", <<>>, then(builders[b]))

Next ==
  \/ \E b \in Refs : AutoIncrement(b)
  \/ \E b \in Refs : PrimaryKey(b)
  \/ \E b \in Refs, ref \in RefStrings : References(b, ref)
  \/ \E b \in Refs, a \in Actions : OnDelete(b, a)
  \/ \E b \in Refs, a \in Actions : OnUpdate(b, a)
  \/ \E b \in Refs : Unique(b)
  \/ \E b \in Refs : NotNull(b)
  \/ \E b \in Refs : Unsigned(b)
  \/ \E b \in Refs, v \in DefaultValues : DefaultTo(b, v)
  \/ \E b \in Refs, e \in RawBuilders : Check(b, e)
  \/ \E b \in Refs, e \in RawBuilders : GeneratedAlwaysAs(b, e)
  \/ \E b \in Refs : GeneratedAlwaysAsIdentity(b)
  \/ \E b \in Refs : GeneratedByDefaultAsIdentity(b)
  \/ \E b \in Refs : Stored(b)
  \/ \E b \in Refs : Then(b)

Spec == Init /\ [][Next]_vars

----------------------------------------------------------------------------
(* Helpers of the properties *)

\* Error taxonomy: the class of a thrown Error, by its message.
ErrorClass(message) ==
  CASE message \in {"invalid call references", "invalid column reference"} ->
         "MalformedReference"
    [] message \in {"on delete constraint can only be added for foreign keys",
                    "on update constraint can only be added for foreign keys",
                    "stored() can only be called after generatedAlwaysAs"} ->
         "PreconditionViolation"
    [] message = "don't await ColumnDefinitionBuilder instances directly." ->
         "UsageMisuse"
    [] OTHER -> "Unknown"

\* The receiver's node and the returned builder's node of the last call.
RecvNode == toOperationNode(builders, last.recv)
ResultNode == toOperationNode(builders, last.result)

Returned(method) == last.method = method /\ last.outcome = "returned"

RECURSIVE ChainOf(_)
\* The builders from the root to b, along the calls that returned them.
ChainOf(b) ==
  IF origin[b].parent = 0 THEN <<b>> ELSE Append(ChainOf(origin[b].parent), b)

\* Greatest index i of chain whose builder was returned by `method`, 0 if none.
LastCall(chain, method) ==
  LET S == {i \in 1..Len(chain) : origin[chain[i]].method = method}
  IN IF S = {} THEN 0 ELSE CHOOSE i \in S : \A j \in S : j <= i

\* The method named `method` applied to a node (dispatch by name).
Apply(method, arg, node) ==
  CASE method = "autoIncrement" -> autoIncrement(node)
    [] method = "primaryKey" -> primaryKey(node)
    [] method = "references" -> references(node, arg[1])
    [] method = "onDelete" -> onDelete(node, arg[1])
    [] method = "onUpdate" -> onUpdate(node, arg[1])
    [] method = "unique" -> unique(node)
    [] method = "notNull" -> notNull(node)
    [] method = "unsigned" -> unsigned(node)
    [] method = "defaultTo" -> defaultTo(node, arg[1])
    [] method = "check" -> check(node, arg[1])
    [] method = "generatedAlwaysAs" -> generatedAlwaysAs(node, arg[1])
    [] method = "generatedAlwaysAsIdentity" -> generatedAlwaysAsIdentity(node)
    [] method = "generatedByDefaultAsIdentity" -> generatedByDefaultAsIdentity(node)
    [] method = "stored" -> stored(node)
    [] method = "then" -> then(node)

RECURSIVE Replay(_)
\* The node obtained by applying, from the root node, the successful calls
\* that lead to builder b (failed calls are not part of origin).
Replay(b) ==
  IF origin[b].parent = 0 THEN ColumnDefinitionNode_create(<<"c">>, "integer")
  ELSE Apply(origin[b].method, origin[b].arg, Replay(origin[b].parent)).node

----------------------------------------------------------------------------
(* Properties *)

\* C1: immutability law. Every successful call of any method returns a
\* builder object that is distinct from the receiver (and from every builder
\* that already exists), and the node the receiver's toOperationNode()
\* returns after the call equals the node it returned before the call.
C1_Immutability ==
  [][last'.outcome = "returned" =>
       /\ last'.result # last'.recv
       /\ last'.result \notin DOMAIN builders
       /\ toOperationNode(builders', last'.recv) = toOperationNode(builders, last'.recv)
    ]_vars

\* C1 witness: a call returned a builder whose node differs from the receiver's.
C1_Witness ==
  /\ last.outcome = "returned" /\ last.recv > 0
  /\ ResultNode # RecvNode

\* C2: onDelete(x) / onUpdate(x) on a builder whose node has no references
\* throw a Precondition Violation; on a builder whose node has references they
\* return a builder whose references keep the table and the column list and
\* carry the action x.
C2_OnModifyNeedsReferences ==
  last.method \in {"onDelete", "onUpdate"} =>
    IF ~Has(RecvNode, "references")
      THEN /\ last.outcome = "threw"
           /\ ErrorClass(last.message) = "PreconditionViolation"
      ELSE /\ last.outcome = "returned"
           /\ Has(ResultNode, "references")
           /\ ResultNode.references.table = RecvNode.references.table
           /\ ResultNode.references.columns = RecvNode.references.columns
           /\ Has(ResultNode.references, last.method)
           /\ ResultNode.references[last.method] = last.arg[1]

\* C2 witness: onDelete returned on a builder derived from references(...).
C2_Witness ==
  /\ Returned("onDelete")
  /\ LastCall(ChainOf(last.recv), "references") > 0

C4_StoredOnlyOnExpressionForm ==
  \A b \in Refs :
    (Has(builders[b], "generated") /\ Has(builders[b].generated, "stored")) =>
      /\ Has(builders[b].generated, "expression")
      /\ ~Has(builders[b].generated, "identity")

\* C5: each generated* method replaces the generated sub-node entirely. The
\* identity calls give exactly the identity form (no expression, no stored);
\* generatedAlwaysAs gives exactly the expression form (no identity, always,
\* byDefault or stored), whatever generated node the receiver had.
C5_GeneratedReplaces ==
  last.outcome = "returned" =>
    /\ last.method = "generatedAlwaysAsIdentity" =>
         ResultNode.generated =
           [kind |-> "GeneratedNode", identity |-> TRUE, always |-> TRUE]
    /\ last.method = "generatedByDefaultAsIdentity" =>
         ResultNode.generated =
           [kind |-> "GeneratedNode", identity |-> TRUE, byDefault |-> TRUE]
    /\ last.method = "generatedAlwaysAs" =>
         ResultNode.generated =
           [kind |-> "GeneratedNode",
            expression |-> RawBuilder_toOperationNode(last.arg[1])]

\* C5 witness: an identity call on a builder whose generated node has an
\* expression and the stored flag.
C5_Witness ==
  /\ Returned("generatedAlwaysAsIdentity")
  /\ Has(RecvNode, "generated")
  /\ Has(RecvNode.generated, "expression")
  /\ Has(RecvNode.generated, "stored")

\* C6: references(ref2) replaces the references sub-node: the result has the
\* table and the single column named by ref2 and neither onDelete nor
\* onUpdate, also when the receiver's references carried them.
C6_ReferencesReplaces ==
  Returned("references") =>
    LET parts == Split(last.arg[1])
        refs == ResultNode.references
    IN /\ refs.table.table = parts[Len(parts) - 1]
       /\ refs.columns = <<[kind |-> "ColumnNode", column |-> parts[Len(parts)]]>>
       /\ ~Has(refs, "onDelete")
       /\ ~Has(refs, "onUpdate")

\* C6 witness: references(ref2) returned on a builder whose references carry
\* onDelete, with ref2 naming another table.
C6_Witness ==
  /\ Returned("references")
  /\ Has(RecvNode, "references")
  /\ Has(RecvNode.references, "onDelete")
  /\ RecvNode.references.table # ResultNode.references.table

\* C7: along any chain of calls, the references sub-node of a builder has the
\* table and columns installed by the last references call of the chain,
\* onDelete equal to the argument of the last onDelete call after it (absent
\* if none) and onUpdate equal to the argument of the last onUpdate call after
\* it (absent if none), in whatever order the calls were interleaved; and
\* references('person.id').onDelete('cascade').onUpdate('restrict') gives
\* table person, columns [id], onDelete cascade, onUpdate restrict.
C7_OnModifyPreserve ==
  \A b \in Refs :
    LET chain == ChainOf(b)
        r == LastCall(chain, "references")
        d == LastCall(chain, "onDelete")
        u == LastCall(chain, "onUpdate")
        refs == builders[b].references
    IN /\ Has(builders[b], "references") <=> r > 0
       /\ r > 0 =>
            /\ refs.table = builders[chain[r]].references.table
            /\ refs.columns = builders[chain[r]].references.columns
            /\ Has(refs, "onDelete") <=> d > r
            /\ d > r => refs.onDelete = origin[chain[d]].arg[1]
            /\ Has(refs, "onUpdate") <=> u > r
            /\ u > r => refs.onUpdate = origin[chain[u]].arg[1]
       /\ ( /\ Len(chain) >= 4
            /\ origin[chain[Len(chain) - 2]].method = "references"
            /\ origin[chain[Len(chain) - 2]].arg[1] = Ref_person_id
            /\ origin[chain[Len(chain) - 1]].method = "onDelete"
            /\ origin[chain[Len(chain) - 1]].arg[1] = "cascade"
            /\ origin[b].method = "onUpdate"
            /\ origin[b].arg[1] = "restrict" ) =>
            refs = [kind |-> "ReferencesNode",
                    table |-> [kind |-> "TableNode",
                               table |-> <<"p", "e", "r", "s", "o", "n">>],
                    columns |-> <<[kind |-> "ColumnNode", column |-> <<"i", "d">>]>>,
                    onDelete |-> "cascade",
                    onUpdate |-> "restrict"]

\* C7 witness: the builder of references('person.id').onDelete('cascade')
\* .onUpdate('restrict').
C7_Witness ==
  /\ Returned("onUpdate") /\ last.arg[1] = "restrict"
  /\ origin[last.recv].method = "onDelete"
  /\ origin[last.recv].arg[1] = "cascade"
  /\ origin[origin[last.recv].parent].method = "references"
  /\ origin[origin[last.recv].parent].arg[1] = Ref_person_id

RECURSIVE JoinDots(_)
\* parts.join('.')
JoinDots(parts) ==
  IF Len(parts) = 1 THEN parts[1]
  ELSE parts[1] \o <<".">> \o JoinDots(Tail(parts))

\* The identifiers of a references sub-node: [schema,] table, column.
Identifiers(refs) ==
  (IF Has(refs.table, "schema") THEN <<refs.table.schema>> ELSE <<>>)
    \o <<refs.table.table>> \o <<refs.columns[1].column>>

\* C8: references('a.b') gives table a without schema and columns exactly
\* [b]; references('a.b.c') gives schema a, table b and columns exactly [c];
\* the identifiers are the segments of the string as given (joined by '.'
\* they give the string back).
C8_ReferenceParsing ==
  Returned("references") =>
    LET refs == ResultNode.references IN
    /\ last.arg[1] = Ref_a_b =>
         refs = [kind |-> "ReferencesNode",
                 table |-> [kind |-> "TableNode", table |-> <<"a">>],
                 columns |-> <<[kind |-> "ColumnNode", column |-> <<"b">>]>>]
    /\ last.arg[1] = Ref_a_b_c =>
         refs = [kind |-> "ReferencesNode",
                 table |-> [kind |-> "TableNode", schema |-> <<"a">>,
                            table |-> <<"b">>],
                 columns |-> <<[kind |-> "ColumnNode", column |-> <<"c">>]>>]
    /\ Len(refs.columns) = 1
    /\ JoinDots(Identifiers(refs)) = last.arg[1]

\* C8 witness: references('a.b.c') returned.
C8_Witness ==
  /\ Returned("references")
  /\ last.arg[1] = Ref_a_b_c
  /\ Has(ResultNode.references.table, "schema")

\* C9: references(ref) throws a Malformed Reference error, and returns no
\* builder, whenever ref does not split on '.' into exactly 2 or 3 segments
\* or its column segment is the wildcard '*'; so for 'a', '' and 'a.*'.
C9_MalformedReference ==
  last.method = "references" =>
    LET parts == Split(last.arg[1]) IN
    ( \/ Len(parts) \notin {2, 3}
      \/ parts[Len(parts)] = <<"*">>
      \/ last.arg[1] \in {Ref_a, Ref_empty, Ref_a_star} ) =>
      /\ last.outcome = "threw"
      /\ ErrorClass(last.message) = "MalformedReference"
      /\ last.result = 0

\* C9 witness: references('a.*') threw.
C9_Witness ==
  /\ last.method = "references"
  /\ last.arg[1] = Ref_a_star
  /\ last.outcome = "threw"

\* C10: a failed call returns no builder and leaves every builder's node,
\* the receiver's included, unchanged; and a call made right after a failed
\* call has the outcome that the method gives on the receiver's node as built
\* by the successful calls alone.
C10_FailedCallNoEffect ==
  [][ /\ last'.outcome = "threw" =>
           /\ last'.result = 0
           /\ builders' = builders
      /\ last.outcome = "threw" =>
           LET r == Apply(last'.method, last'.arg, Replay(last'.recv)) IN
           IF r.ok
             THEN /\ last'.outcome = "returned"
                  /\ toOperationNode(builders', last'.result) = r.node
             ELSE /\ last'.outcome = "threw"
                  /\ last'.message = r.message
    ]_vars

\* C10 witness: a call that returned, made right after a failed call on a
\* builder that is not the root.
C10_Witness ==
  /\ last.after = "threw"
  /\ last.outcome = "returned"
  /\ last.recv > 1

\* C11: causal chain independence. In every state the node of every builder
\* equals the result of applying the calls of its own chain, in order, to the
\* root node, whatever calls were made before or after on other chains forked
\* from a common ancestor.
C11_ChainIndependence ==
  \A b \in Refs : toOperationNode(builders, b) = Replay(b)

\* C11 witness: two chains forked from a common ancestor; the first chain
\* was extended after the second one was started.
C11_Witness ==
  \E b1, b2, b3 \in Refs :
    /\ b1 < b2 /\ b2 < b3
    /\ origin[b2].parent = origin[b1].parent
    /\ origin[b3].parent = b1
    /\ builders[b1] # builders[b2]

\* The five flag setters (each sets the property of its own name).
FlagSetters == {"autoIncrement", "primaryKey", "unique", "notNull", "unsigned"}

\* C12: the flag setters have no precondition and are idempotent. A call of
\* a flag setter f on any builder returns, the result has the flag f true,
\* and on a receiver that already has the flag (so for f(f(B))) the result's
\* node equals the receiver's node.
C12_FlagSettersIdempotent ==
  last.method \in FlagSetters =>
    /\ last.outcome = "returned"
    /\ Has(ResultNode, last.method)
    /\ ResultNode[last.method] = TRUE
    /\ Has(RecvNode, last.method) => ResultNode = RecvNode

\* C12 witness: unique() called on the builder that unique() returned.
C12_Witness ==
  /\ Returned("unique")
  /\ origin[last.recv].method = "unique"

\* The top-level property of the column definition node a method writes.
Field(method) ==
  CASE method \in FlagSetters -> method
    [] method \in {"references", "onDelete", "onUpdate"} -> "references"
    [] method = "defaultTo" -> "defaultTo"
    [] method = "check" -> "check"
    [] method \in {"generatedAlwaysAs", "generatedAlwaysAsIdentity",
                   "generatedByDefaultAsIdentity", "stored"} -> "generated"
    [] OTHER -> "none"

\* The methods without precondition on the receiver.
Unconditional ==
  FlagSetters \cup {"defaultTo", "check", "references", "generatedAlwaysAs",
                    "generatedAlwaysAsIdentity", "generatedByDefaultAsIdentity"}

RECURSIVE ApplyCalls(_, _)
\* The calls (method, arg) applied in order to a node; a throw ends the chain.
ApplyCalls(calls, node) ==
  IF Len(calls) = 0 THEN Returns(node)
  ELSE LET r == Apply(calls[1].method, calls[1].arg, node)
       IN IF r.ok THEN ApplyCalls(Tail(calls), r.node) ELSE r

\* The permutations of 1..k.
Perms(k) == {p \in [1..k -> 1..k] : \A i, j \in 1..k : p[i] = p[j] => i = j}

\* The last k calls of the chain that returned builder b write k different
\* properties and have no precondition.
CommutingTail(b, k) ==
  LET chain == ChainOf(b) IN
  /\ Len(chain) > k
  /\ \A i \in 1..k : origin[chain[Len(chain) - k + i]].method \in Unconditional
  /\ \A i, j \in 1..k :
       i # j => Field(origin[chain[Len(chain) - k + i]].method)
                  # Field(origin[chain[Len(chain) - k + j]].method)

\* The node obtained from the ancestor k calls above b by the last k calls
\* of b's chain taken in the order p.
Reordered(b, k, p) ==
  LET chain == ChainOf(b)
      base == Len(chain) - k
  IN ApplyCalls([i \in 1..k |-> origin[chain[base + p[i]]]], builders[chain[base]])

\* C13: calls that write different properties commute. The node of a builder
\* returned by two or three calls, each a flag setter, defaultTo, check,
\* references or a generated* call and no two writing the same property,
\* equals the node the same calls give in every other order from the same
\* ancestor; and check(expr), unique(), notNull() in any order give check set
\* to the parsed expression and unique and notNull true.
C13_Commute ==
  (last.outcome = "returned" /\ last.recv > 0) =>
    LET b == last.result
        chain == ChainOf(b)
    IN /\ \A k \in {2, 3} :
            CommutingTail(b, k) =>
              \A p \in Perms(k) : Reordered(b, k, p) = Returns(builders[b])
       /\ ( /\ CommutingTail(b, 3)
            /\ {origin[chain[Len(chain) - 3 + i]].method : i \in 1..3}
                 = {"check", "unique", "notNull"} ) =>
            /\ \E i \in 1..3 :
                 /\ origin[chain[Len(chain) - 3 + i]].method = "check"
                 /\ builders[b].check =
                      CheckConstraintNode_create(RawBuilder_toOperationNode(
                        origin[chain[Len(chain) - 3 + i]].arg[1]))
            /\ builders[b].unique = TRUE
            /\ builders[b].notNull = TRUE

\* C13 witness: notNull(), unique(), check(expr) called in this order, the
\* reverse of check(expr).unique().notNull().
C13_Witness ==
  /\ Returned("check")
  /\ origin[last.recv].method = "unique"
  /\ origin[origin[last.recv].parent].method = "notNull"

----------------------------------------------------------------------------
(* HavingInterface (src/query-builder/having-interface.ts): the having
   clause of a query builder.  The interface declares the methods; their
   effect on the query node is the accumulation the design describes: a
   having* call combines its condition with the accumulated one by AND, an
   orHaving* call by OR, and calls of other clauses leave it alone. *)

\* Conditions given as (lhs, op, rhs) with a value on the right.
Comparisons ==
  {[kind |-> "BinaryOperationNode",
    left |-> [kind |-> "ReferenceNode", column |-> "x"],
    operator |-> "=",
    right |-> [kind |-> "ValueNode", value |-> v]] : v \in {1, 2, 3}}

\* Conditions given to havingRef / orHavingRef: a reference on the right.
RefComparisons ==
  {[kind |-> "BinaryOperationNode",
    left |-> [kind |-> "ReferenceNode", column |-> "x"],
    operator |-> "=",
    right |-> [kind |-> "ReferenceNode", column |-> "y"]]}

\* Arguments given to the *Exists methods (ExistsExpression).
Subqueries == {[kind |-> "SelectQueryNode", from |-> "t"]}

\* OrNode.create(left, right)
OrNode_create(left, right) == [kind |-> "OrNode", left |-> left, right |-> right]

\* AndNode.create(left, right)
AndNode_create(left, right) == [kind |-> "AndNode", left |-> left, right |-> right]

\* parseExists(arg) / parseNotExists(arg)
parseExists(arg) ==
  [kind |-> "UnaryOperationNode", operator |-> "exists", operand |-> arg]
parseNotExists(arg) ==
  [kind |-> "UnaryOperationNode", operator |-> "not exists", operand |-> arg]

\* HavingNode.create(filter)
HavingNode_create(filter) == [kind |-> "HavingNode", having |-> filter]

\* HavingNode.cloneWithOperation(havingNode, operator, operation)
HavingNode_cloneWithOperation(havingNode, operator, operation) ==
  [kind |-> "HavingNode",
   having |-> IF operator = "And"
                THEN AndNode_create(havingNode.having, operation)
                ELSE OrNode_create(havingNode.having, operation)]

\* QueryNode.cloneWithHaving(node, operation)
QueryNode_cloneWithHaving(node, operation) ==
  SpreadWith(node,
    [having |-> IF Has(node, "having")
                  THEN HavingNode_cloneWithOperation(node.having, "And", operation)
                  ELSE HavingNode_create(operation)])

\* Mutant of QueryNode_cloneWithOrHaving: the new condition replaces the
\* accumulated one.
QueryNode_cloneWithOrHaving_Replaces(node, operation) ==
  SpreadWith(node, [having |-> HavingNode_create(operation)])

\* QueryNode.cloneWithOrHaving(node, operation)
QueryNode_cloneWithOrHaving(node, operation) ==
  SpreadWith(node,
    [having |-> IF Has(node, "having")
                  THEN HavingNode_cloneWithOperation(node.having, "Or", operation)
                  ELSE HavingNode_create(operation)])

\* QueryNode.cloneWithWhere(node, operation): another clause of the query.
QueryNode_cloneWithWhere(node, operation) ==
  SpreadWith(node,
    [where |-> IF Has(node, "where")
                 THEN [kind |-> "WhereNode",
                       where |-> AndNode_create(node.where.where, operation)]
                 ELSE [kind |-> "WhereNode", where |-> operation]])

having(node, cond) == QueryNode_cloneWithHaving(node, cond)
havingRef(node, cond) == QueryNode_cloneWithHaving(node, cond)
orHaving(node, cond) == QueryNode_cloneWithOrHaving(node, cond)
orHavingRef(node, cond) == QueryNode_cloneWithOrHaving(node, cond)
havingExists(node, arg) == QueryNode_cloneWithHaving(node, parseExists(arg))
havingNotExists(node, arg) == QueryNode_cloneWithHaving(node, parseNotExists(arg))
orHavingExists(node, arg) == QueryNode_cloneWithOrHaving(node, parseExists(arg))
orHavingNotExists(node, arg) ==
  QueryNode_cloneWithOrHaving(node, parseNotExists(arg))
where(node, cond) == QueryNode_cloneWithWhere(node, cond)

\* One call on the having chain: the builder returned wraps the new node.
HavingCall(method, arg, node) ==
  /\ Len(hlog) < MaxHavingCalls
  /\ hnode' = node
  /\ hlog' = Append(hlog, [method |-> method, arg |-> arg])
  /\ UNCHANGED <<builders, origin, last, ncalls>>

Having(c) == HavingCall("having", c, having(hnode, c))
HavingRef(c) == HavingCall("havingRef", c, havingRef(hnode, c))
OrHaving(c) == HavingCall("orHaving", c, orHaving(hnode, c))
OrHavingRef(c) == HavingCall("orHavingRef", c, orHavingRef(hnode, c))
HavingExists(q) == HavingCall("havingExists", q, havingExists(hnode, q))
HavingNotExists(q) == HavingCall("havingNotExists", q, havingNotExists(hnode, q))
OrHavingExists(q) == HavingCall("orHavingExists", q, orHavingExists(hnode, q))
OrHavingNotExists(q) ==
  HavingCall("orHavingNotExists", q, orHavingNotExists(hnode, q))
Where(c) == HavingCall("where", c, where(hnode, c))

NextHaving ==
  \/ \E c \in Comparisons : Having(c)
  \/ \E c \in RefComparisons : HavingRef(c)
  \/ \E c \in Comparisons : OrHaving(c)
  \/ \E c \in RefComparisons : OrHavingRef(c)
  \/ \E q \in Subqueries : HavingExists(q)
  \/ \E q \in Subqueries : HavingNotExists(q)
  \/ \E q \in Subqueries : OrHavingExists(q)
  \/ \E q \in Subqueries : OrHavingNotExists(q)
  \/ \E c \in RefComparisons : Where(c)

SpecHaving == Init /\ [][NextHaving]_vars

\* The atomic conditions, in a fixed order: three comparisons with a value,
\* one with a reference, one subquery.
AtomList ==
  <<CHOOSE c \in Comparisons : c.right.value = 1,
    CHOOSE c \in Comparisons : c.right.value = 2,
    CHOOSE c \in Comparisons : c.right.value = 3,
    CHOOSE c \in RefComparisons : TRUE,
    CHOOSE q \in Subqueries : TRUE>>

\* The position of an atomic condition in AtomList.
AtomIndex(n) ==
  IF n.kind = "SelectQueryNode" THEN 5
  ELSE IF n.right.kind = "ReferenceNode" THEN 4
  ELSE n.right.value

\* The truth assignments of the atomic conditions, each given as the set of
\* the positions of the conditions it makes true.
Assignments == SUBSET (1..Len(AtomList))

\* The assignments under which the atomic condition at position i is true.
Models == [i \in 1..Len(AtomList) |-> {s \in Assignments : i \in s}]

RECURSIVE Sat(_)
\* The assignments under which a boolean tree is true.
Sat(tree) ==
  CASE tree.kind = "OrNode" -> Sat(tree.left) \cup Sat(tree.right)
    [] tree.kind = "AndNode" -> Sat(tree.left) \cap Sat(tree.right)
    [] tree.kind = "UnaryOperationNode" ->
         IF tree.operator = "exists" THEN Models[AtomIndex(tree.operand)]
         ELSE Assignments \ Models[AtomIndex(tree.operand)]
    [] OTHER -> Models[AtomIndex(tree)]

OrHavingMethods == {"orHaving", "orHavingRef", "orHavingExists", "orHavingNotExists"}
HavingMethods == {"having", "havingRef", "havingExists", "havingNotExists"}

\* The assignments under which the condition a logged call supplied is true.
CondSat(call) ==
  IF call.method \in {"havingNotExists", "orHavingNotExists"}
    THEN Assignments \ Models[AtomIndex(call.arg)]
    ELSE Models[AtomIndex(call.arg)]

\* The logged calls that are having* or orHaving* calls.
HavingCallsOf(log) ==
  SelectSeq(log, LAMBDA e : e.method \in OrHavingMethods \cup HavingMethods)

RECURSIVE Accumulated(_, _)
\* The assignments under which the condition accumulated by the first n > 0
\* calls of a sequence of having* and orHaving* calls is true: each call is
\* combined with what was accumulated before it, orHaving* by OR.
Accumulated(calls, n) ==
  IF n = 1 THEN CondSat(calls[1])
  ELSE IF calls[n].method \in OrHavingMethods
    THEN Accumulated(calls, n - 1) \cup CondSat(calls[n])
    ELSE Accumulated(calls, n - 1) \cap CondSat(calls[n])

\* C14: orHaving accumulation. The having condition of the query node is
\* present exactly when a having* or orHaving* call was made, and it is true
\* under exactly the truth assignments obtained by combining each orHaving*
\* condition with the previously accumulated condition by OR (no call
\* replaces the accumulated condition), wherever calls of another clause are
\* interleaved; so orHaving calls with C1, C2, C3 give C1 OR C2 OR C3.
C14_OrHavingAccumulates ==
  LET calls == HavingCallsOf(hlog) IN
  /\ Has(hnode, "having") <=> Len(calls) > 0
  /\ Len(calls) > 0 =>
       Sat(hnode.having.having) = Accumulated(calls, Len(calls))
  /\ ( /\ Len(calls) = 3
       /\ \A i \in 1..3 : calls[i].method = "orHaving" /\ calls[i].arg = AtomList[i] ) =>
       Sat(hnode.having.having) = Models[1] \cup Models[2] \cup Models[3]

\* C14 witness: orHaving(C1), orHaving(C2), orHaving(C3) with a call of
\* another clause in between.
C14_Witness ==
  /\ Len(hlog) = 4
  /\ hlog[1].method = "orHaving" /\ hlog[1].arg = AtomList[1]
  /\ hlog[2].method = "where"
  /\ hlog[3].method = "orHaving" /\ hlog[3].arg = AtomList[2]
  /\ hlog[4].method = "orHaving" /\ hlog[4].arg = AtomList[3]

\* C15: the builder is not an awaitable. Using any builder as a thenable
\* throws at once a Usage Misuse error that names the builder class, returns
\* nothing, and leaves the builder's node as its chain of calls built it.
C15_NotAwaitable ==
  last.method = "then" =>
    /\ last.outcome = "threw"
    /\ ErrorClass(last.message) = "UsageMisuse"
    /\ last.result = 0
    /\ RecvNode = Replay(last.recv)

\* C15 witness: a builder returned by a method call was used as a thenable.
C15_Witness ==
  /\ last.method = "then"
  /\ last.outcome = "threw"
  /\ last.recv > 1

\* C16: frame of each method. The node of the builder a call returns differs
\* from the receiver's node at most in the one top-level property the method
\* writes (its flag; references for references/onDelete/onUpdate; defaultTo;
\* check; generated for the generated* calls and stored): every other
\* property is present in both or in neither, with equal value. The column
\* name and the data type of every builder are those of the root.
C16_Frame ==
  /\ (last.outcome = "returned" /\ last.recv > 0) =>
       \A f \in (DOMAIN RecvNode \cup DOMAIN ResultNode) \ {Field(last.method)} :
         /\ Has(RecvNode, f)
         /\ Has(ResultNode, f)
         /\ ResultNode[f] = RecvNode[f]
  /\ \A b \in Refs :
       /\ builders[b].column = <<"c">>
       /\ builders[b].dataType = "integer"

\* C16 witness: stored() returned on a builder that also has references.
C16_Witness ==
  /\ Returned("stored")
  /\ Has(RecvNode, "references")
  /\ ResultNode.references = RecvNode.references

\* C17: defaultTo and check are last-writer-wins. The default of the node
\* returned by defaultTo(e2) wraps the parsed e2 and nothing else, and the
\* check constraint of the node returned by check(c2) wraps the node of c2 and
\* nothing else, whatever default or check the receiver had.
C17_LastWriterWins ==
  /\ Returned("defaultTo") =>
       ResultNode.defaultTo =
         [kind |-> "DefaultValueNode",
          defaultValue |-> parseDefaultValueExpression(last.arg[1])]
  /\ Returned("check") =>
       ResultNode.check =
         [kind |-> "CheckConstraintNode",
          expression |-> RawBuilder_toOperationNode(last.arg[1])]

\* C17 witness: defaultTo(e2) returned on a builder whose default was set by
\* defaultTo(e1) with another e1.
C17_Witness ==
  /\ Returned("defaultTo")
  /\ origin[last.recv].method = "defaultTo"
  /\ RecvNode.defaultTo # ResultNode.defaultTo

\* C18: in every builder, a references sub-node has a target table and
\* exactly one target column, and that column is a column node, never the
\* select-all marker.
C18_ReferencesTarget ==
  \A b \in Refs :
    Has(builders[b], "references") =>
      LET refs == builders[b].references IN
      /\ Has(refs, "table")
      /\ refs.table.kind = "TableNode"
      /\ Has(refs.table, "table")
      /\ Has(refs, "columns")
      /\ Len(refs.columns) = 1
      /\ ~SelectAllNode_is(refs.columns[1])
      /\ refs.columns[1].kind = "ColumnNode"

\* C18 witness: a builder whose references sub-node, with a schema, went
\* through onDelete and onUpdate.
C18_Witness ==
  \E b \in Refs :
    /\ Has(builders[b], "references")
    /\ Has(builders[b].references.table, "schema")
    /\ Has(builders[b].references, "onDelete")
    /\ Has(builders[b].references, "onUpdate")

====
